---------------------------- MODULE Spec2Model ----------------------------
(***************************************************************************)
(* A model of the word generation pipeline of word_generator.py: the six   *)
(* word-formation strategies, the wildcard constructor and the sampling    *)
(* loop of generate_new_words.                                             *)
(*                                                                         *)
(* A word is a sequence of one-character strings (<<"c","a","t">> is       *)
(* "cat"), so that slicing, lower(), strip() and comparison are computed   *)
(* as the code computes them.  A Python list of words is a sequence of     *)
(* words; a list built from a Python set is a set of words, whose          *)
(* iteration order is left open.  Every call into the random module is a   *)
(* nondeterministic choice.                                                *)
(***************************************************************************)
EXTENDS Integers, Sequences, FiniteSets, TLC

(***************************************************************************)
(* Bounds of the model.                                                    *)
(***************************************************************************)
\* The largest requested count (num_to_generate) that is explored.
MaxN == 3
\* The smallest requested count that is explored is -MaxNeg.
MaxNeg == 1
\* random.choice draws among the first MaxPick entries of a vocabulary list.
MaxPick == 2

(***************************************************************************)
(* Module constants of word_generator.py.                                  *)
(***************************************************************************)
VOWELS == <<"a","e","i","o","u">>
CONSONANTS ==
    <<"b","c","d","f","g","h","j","k","l","m","n","p","q","r","s","t","v","w","x","y","z">>
ASCII_UPPERCASE ==
    <<"A","B","C","D","E","F","G","H","I","J","K","L","M","N","O","P","Q","R","S","T","U","V","W","X","Y","Z">>
ASCII_LOWERCASE ==
    <<"a","b","c","d","e","f","g","h","i","j","k","l","m","n","o","p","q","r","s","t","u","v","w","x","y","z">>

COMMON_PREFIXES ==
    << <<"r","e">>,
       <<"u","n">>,
       <<"i","n">>,
       <<"i","m">>,
       <<"p","r","e">>,
       <<"p","o","s","t">>,
       <<"m","i","s">>,
       <<"d","i","s">>,
       <<"p","r","o">>,
       <<"a","n","t","i">>,
       <<"n","o","n">> >>

COMMON_SUFFIXES ==
    << <<"i","n","g">>,
       <<"e","d">>,
       <<"e","r">>,
       <<"e","s","t">>,
       <<"l","y">>,
       <<"a","b","l","e">>,
       <<"i","b","l","e">>,
       <<"n","e","s","s">>,
       <<"m","e","n","t">>,
       <<"t","i","o","n">>,
       <<"s","i","o","n">>,
       <<"i","f","y">>,
       <<"i","z","e">> >>

PLAYFUL_AFFIXES ==
    << <<"m","e","g","a">>,
       <<"u","b","e","r">>,
       <<"h","y","p","e","r">>,
       <<"g","i","g","a">>,
       <<"-","t","a","s","t","i","c">>,
       <<"-","e","r","i","f","i","c">>,
       <<"-","i","n","a","t","o","r">>,
       <<"-","i","z","z","l","e">>,
       <<"-","c","o","r","e">>,
       <<"-","w","a","v","e">>,
       <<"-","p","u","n","k">>,
       <<"-","i","s","h">>,
       <<"-","y">>,
       <<"-","o","-","r","a","m","a">>,
       <<"-","a","p","a","l","o","o","z","a">>,
       <<"-","e","r","i","n","o">>,
       <<"-","a","r","i","n","o">>,
       <<"-","z","i","l","l","a">>,
       <<"-","m","e","i","s","t","e","r">>,
       <<"-","l","i","c","i","o","u","s">>,
       <<"-","t","u","d","e">>,
       <<"-","s","c","a","p","e">>,
       <<"-","o","m","a","t","i","c">> >>

QUIRKY_WORDS ==
    << <<"k","e","r","f","u","f","f","l","e">>,
       <<"f","l","u","m","m","o","x">>,
       <<"h","u","l","l","a","b","a","l","o","o">>,
       <<"b","a","m","b","o","o","z","l","e">>,
       <<"g","o","b","b","l","e","d","y","g","o","o","k">>,
       <<"m","a","l","a","r","k","e","y">>,
       <<"w","o","b","e","g","o","n","e">>,
       <<"s","n","o","l","l","y","g","o","s","t","e","r">>,
       <<"c","o","l","l","y","w","o","b","b","l","e","s">>,
       <<"n","i","n","c","o","m","p","o","o","p">>,
       <<"r","a","m","b","u","n","c","t","i","o","u","s">>,
       <<"s","k","u","l","d","u","g","g","e","r","y">>,
       <<"p","e","r","s","n","i","c","k","e","t","y">>,
       <<"c","o","d","s","w","a","l","l","o","p">>,
       <<"h","o","r","n","s","w","o","g","g","l","e">>,
       <<"c","a","n","t","a","n","k","e","r","o","u","s">>,
       <<"l","o","l","l","y","g","a","g">>,
       <<"f","l","i","b","b","e","r","t","i","g","i","b","b","e","t">>,
       <<"w","h","a","t","c","h","a","m","a","c","a","l","l","i","t">>,
       <<"t","h","i","n","g","a","m","a","j","i","g">>,
       <<"d","o","o","h","i","c","k","e","y">>,
       <<"d","i","s","c","o","m","b","o","b","u","l","a","t","e">>,
       <<"f","i","n","a","g","l","e">>,
       <<"s","h","e","n","a","n","i","g","a","n","s">>,
       <<"c","a","t","t","y","w","a","m","p","u","s">>,
       <<"r","i","g","m","a","r","o","l","e">> >>

(***************************************************************************)
(* Python values and string operations.                                    *)
(***************************************************************************)
\* Python's None; no word, since every element of a word is one character.
None == <<"None">>

Range(s) == {s[i] : i \in DOMAIN s}

Min(a, b) == IF a <= b THEN a ELSE b

Max(a, b) == IF a >= b THEN a ELSE b

\* s[:k] for k >= 0
Prefix(s, k) == SubSeq(s, 1, Min(k, Len(s)))

\* s[k:] for k >= 0
Suffix(s, k) == SubSeq(s, Min(k, Len(s)) + 1, Len(s))

\* s[-k:] for k >= 1
LastChars(s, k) == SubSeq(s, Max(Len(s) - k, 0) + 1, Len(s))

\* s.startswith(p)
StartsWith(s, p) == Len(p) <= Len(s) /\ SubSeq(s, 1, Len(p)) = p

\* s.endswith(p)
EndsWith(s, p) == Len(p) <= Len(s) /\ SubSeq(s, Len(s) - Len(p) + 1, Len(s)) = p

LowerChar(c) ==
    IF \E i \in DOMAIN ASCII_UPPERCASE : ASCII_UPPERCASE[i] = c
    THEN ASCII_LOWERCASE[CHOOSE i \in DOMAIN ASCII_UPPERCASE : ASCII_UPPERCASE[i] = c]
    ELSE c

\* s.lower()
Lower(s) == IF s = <<>> THEN <<>> ELSE [i \in 1..Len(s) |-> LowerChar(s[i])]

\* The whitespace characters of the model.
Whitespace == {" "}

RECURSIVE LStrip(_)
LStrip(s) == IF s # <<>> /\ Head(s) \in Whitespace THEN LStrip(Tail(s)) ELSE s

RECURSIVE RStrip(_)
RStrip(s) ==
    IF s # <<>> /\ s[Len(s)] \in Whitespace THEN RStrip(SubSeq(s, 1, Len(s) - 1)) ELSE s

\* s.strip()
Strip(s) == RStrip(LStrip(s))

\* s.lstrip('-')
RECURSIVE LStripHyphen(_)
LStripHyphen(s) == IF s # <<>> /\ Head(s) = "-" THEN LStripHyphen(Tail(s)) ELSE s

RECURSIVE RStripHyphen(_)
RStripHyphen(s) ==
    IF s # <<>> /\ s[Len(s)] = "-" THEN RStripHyphen(SubSeq(s, 1, Len(s) - 1)) ELSE s

\* s.strip('-')
StripHyphen(s) == RStripHyphen(LStripHyphen(s))

(***************************************************************************)
(* The random module.  Each operator is the set of values a call can       *)
(* return.                                                                 *)
(***************************************************************************)
\* random.choice(s) for a non-empty list s
RandomChoice(s) == {s[i] : i \in 1..Len(s)}

\* random.choice(s) for s drawn from a vocabulary of the module (the affix
\* lists, the alphabets, the quirky words): the draw is bounded to the first
\* MaxPick entries of s.
RandomChoiceVocab(s) == {s[i] : i \in 1..Min(Len(s), MaxPick)}

\* random.randint(a, b)
RandInt(a, b) == a..b

\* random.randrange(n)
RandRange(n) == 0..(n - 1)

\* random.random() < p / 100
Coin(p) == {b \in BOOLEAN : (b => p > 0) /\ (~b => p < 100)}

\* random.sample(s, 2): two elements at distinct positions
Sample2(s) ==
    {<<s[x[1]], s[x[2]]>> : x \in {y \in (DOMAIN s) \X (DOMAIN s) : y[1] # y[2]}}

\* A faulty variant of Shuffle, which draws each position anew (random.choices).
ShuffleWithRepetition(S) == [1..Cardinality(S) -> S]

\* random.shuffle of a list holding the elements of the set S: any order
RECURSIVE Shuffle(_)
Shuffle(S) ==
    IF S = {} THEN {<<>>}
    ELSE UNION {{<<x>> \o t : t \in Shuffle(S \ {x})} : x \in S}

(***************************************************************************)
(* Blending.  A strategy is the set of lists it can return; a returned     *)
(* list without repetition is the set of its words.                        *)
(***************************************************************************)
find_longest_overlap(s1, s2) ==
    LET ks == {k \in 1..Min(Len(s1), Len(s2)) : EndsWith(s1, Prefix(s2, k))}
    IN  IF ks = {} THEN <<>>
        ELSE Prefix(s2, CHOOSE k \in ks : \A j \in ks : j <= k)

\* A faulty variant of CanSplit, which asks for one word of two letters only.
CanSplitEitherLong(len1, len2) == len1 > 1 \/ len2 > 1

\* if len1 > 1 and len2 > 1
CanSplit(len1, len2) == len1 > 1 /\ len2 > 1

\* A faulty variant of ValidBlends, which keeps a blend equal to an input.
ValidBlendsKeepingInputs(blends, word1, word2) == {b \in blends : Len(b) > 3}

\* blends.discard(word1), blends.discard(word2), then the blends of more
\* than 3 characters
ValidBlends(blends, word1, word2) == {b \in blends \ {word1, word2} : Len(b) > 3}

\* A faulty variant of BlendInput, which forgets to lower-case the word.
BlendInputAsGiven(word) == word

\* word1 = word1.lower(), word2 = word2.lower()
BlendInput(word) == Lower(word)

blend_words(word1, word2) ==
    LET w1 == BlendInput(word1)
        w2 == BlendInput(word2)
        overlap12 == find_longest_overlap(w1, w2)
        overlap21 == find_longest_overlap(w2, w1)
        overlaps ==
            (IF Len(overlap12) >= 2 THEN {w1 \o Suffix(w2, Len(overlap12))} ELSE {})
            \cup
            (IF Len(overlap21) >= 2 THEN {w2 \o Suffix(w1, Len(overlap21))} ELSE {})
        len1 == Len(w1)
        len2 == Len(w2)
        halves ==
            IF CanSplit(len1, len2)
            THEN {{Prefix(w1, Max(1, len1 \div 2 + r[1]))
                       \o Suffix(w2, Max(1, len2 \div 2 + r[2])),
                   Prefix(w2, Max(1, len2 \div 2 + r[4]))
                       \o Suffix(w1, Max(1, len1 \div 2 + r[3]))} :
                  r \in RandInt(-1, 1) \X RandInt(-1, 0) \X RandInt(-1, 0) \X RandInt(-1, 1)}
            ELSE {{}}
    IN  {ValidBlends(overlaps \cup h, w1, w2) : h \in halves}

(***************************************************************************)
(* Affixation.                                                             *)
(***************************************************************************)
IsPlayfulPrefix(a) == ~StartsWith(a, <<"-">>)

IsPlayfulSuffix(a) == StartsWith(a, <<"-">>)

\* [pa for pa in PLAYFUL_AFFIXES if not pa.startswith('-')]
PlayfulPrefixes == SelectSeq(PLAYFUL_AFFIXES, IsPlayfulPrefix)

\* [s for s in PLAYFUL_AFFIXES if s.startswith('-')]
PlayfulSuffixes == SelectSeq(PLAYFUL_AFFIXES, IsPlayfulSuffix)

\* [pa.strip('-') for pa in PLAYFUL_AFFIXES if pa.startswith('-')]
StrippedPlayfulSuffixes ==
    [i \in 1..Len(PlayfulSuffixes) |-> StripHyphen(PlayfulSuffixes[i])]

\* The suffixes before which a final "e" is dropped.
ElidingSuffixes ==
    {<<"i","n","g">>, <<"e","d">>, <<"a","b","l","e">>, <<"i","b","l","e">>,
     <<"e","r">>, <<"e","s","t">>, <<"i","s","h">>, <<"y">>, <<"i","z","e">>}

\* The suffixes before which a final consonant is doubled.
DoublingSuffixes == {<<"i","n","g">>, <<"e","d">>, <<"e","r">>, <<"e","s","t">>}

\* The suffixed form of word for the suffix chosen (the simplified suffix rules).
ApplySuffix(word, suffix_candidate) ==
    IF EndsWith(word, <<"e">>) /\ suffix_candidate \in ElidingSuffixes
    THEN Prefix(word, Len(word) - 1) \o suffix_candidate
    ELSE IF /\ Len(word) > 1
            /\ word[Len(word)] \in Range(CONSONANTS)
            /\ word[Len(word) - 1] \in Range(VOWELS)
            /\ suffix_candidate \in DoublingSuffixes
            /\ word[Len(word)] \notin {"w", "x"}
         THEN word \o <<word[Len(word)]>> \o suffix_candidate
         ELSE word \o suffix_candidate

\* The test made before a prefix is added.
MayAddPrefix(word) ==
    /\ Len(word) > 2
    /\ ~\E p \in Range(COMMON_PREFIXES \o PlayfulPrefixes) : StartsWith(word, p)

\* A faulty variant of MayAddSuffix, which lets a word of three characters
\* take a suffix.
MayAddSuffixFromThree(word) ==
    /\ Len(word) > 2
    /\ ~\E x \in Range(COMMON_SUFFIXES \o StrippedPlayfulSuffixes) : EndsWith(word, x)

\* The test made before a suffix is added.
MayAddSuffix(word) ==
    /\ Len(word) > 3
    /\ ~\E x \in Range(COMMON_SUFFIXES \o StrippedPlayfulSuffixes) : EndsWith(word, x)

\* playful_prob is given in percent.
add_affixes(word_in, playful_prob) ==
    LET word == Lower(word_in)
        with_prefix ==
            IF MayAddPrefix(word)
            THEN UNION {IF use_playful /\ PlayfulPrefixes # <<>>
                        THEN {{prefix \o word} : prefix \in RandomChoiceVocab(PlayfulPrefixes)}
                        ELSE {{prefix \o word} : prefix \in RandomChoiceVocab(COMMON_PREFIXES)} :
                        use_playful \in Coin(playful_prob)}
            ELSE {{}}
        with_suffix ==
            IF MayAddSuffix(word)
            THEN UNION {IF use_playful /\ PlayfulSuffixes # <<>>
                        THEN {{ApplySuffix(word, LStripHyphen(x))} :
                                 x \in RandomChoiceVocab(PlayfulSuffixes)}
                        ELSE {{ApplySuffix(word, x)} : x \in RandomChoiceVocab(COMMON_SUFFIXES)} :
                        use_playful \in Coin(playful_prob)}
            ELSE {{}}
    IN  {{x \in a \cup b : x # word /\ 3 < Len(x) /\ Len(x) < 25} :
            a \in with_prefix, b \in with_suffix}

(***************************************************************************)
(* Clipping.                                                               *)
(***************************************************************************)
\* A faulty variant of ClipLengths, which keeps one character more.
ClipLengthsLonger == <<4, 5>>

\* The lengths a word is clipped to: [3, 4]
ClipLengths == <<3, 4>>

clip_word(word_in) ==
    LET word == Lower(word_in)
    IN  IF Len(word) <= 4 THEN {{}}
        ELSE {IF Prefix(word, clip_len) = word THEN {} ELSE {Prefix(word, clip_len)} :
                 clip_len \in RandomChoice(ClipLengths)}

(***************************************************************************)
(* Reduplication (mode 'suffix_partial', the default).                     *)
(***************************************************************************)
get_last_syllable_heuristic(word) ==
    LET vs == {i \in 1..Len(word) : word[i] \in Range(VOWELS)}
        last_vowel_index == CHOOSE i \in vs : \A j \in vs : j <= i
        start_index ==
            IF last_vowel_index > 1 /\ word[last_vowel_index - 1] \in Range(CONSONANTS)
            THEN last_vowel_index - 1
            ELSE last_vowel_index
        segment == SubSeq(word, start_index, Len(word))
    IN  IF Len(word) < 2 THEN word
        ELSE IF vs = {} THEN LastChars(word, 2)
        ELSE IF Len(segment) < 2 /\ Len(word) >= 2 THEN LastChars(word, 2)
        ELSE IF Len(segment) = 1 /\ Len(word) >= 3 THEN LastChars(word, 3)
        ELSE segment

\* A faulty variant of FitsReduplicated, which sets no limit.
FitsReduplicatedAnyLength(new_word) == TRUE

\* The test made on the length of the reduplicated word.
FitsReduplicated(new_word) == Len(new_word) < 25

reduplicate_word(word_in) ==
    LET word == Lower(word_in)
        segment_to_reduplicate == get_last_syllable_heuristic(word)
        new_word == word \o segment_to_reduplicate
        reduplicated_words ==
            IF Len(segment_to_reduplicate) >= 1 /\ FitsReduplicated(new_word)
            THEN {new_word} ELSE {}
    IN  IF Len(word) < 3 THEN {{}}
        ELSE {{x \in reduplicated_words : x # word}}

(***************************************************************************)
(* Phonetic respelling.                                                    *)
(***************************************************************************)
\* A faulty variant of PHONETIC_RESPELLING_RULES, whose "ing" rule drops the
\* apostrophe.
RespellingRulesWithoutApostrophe ==
    << <<<<"i","n","g">>, <<"i","n">>>>,
       <<<<"c","o","o","l">>, <<"k","e","w","l">>>>,
       <<<<"y","o","u">>, <<"u">>>>,
       <<<<"y","o","u","r">>, <<"u","r">>>> >>

\* The rules as <<pattern, replacement>> pairs.
PHONETIC_RESPELLING_RULES ==
    << <<<<"i","n","g">>, <<"i","n","'">>>>,
       <<<<"c","o","o","l">>, <<"k","e","w","l">>>>,
       <<<<"y","o","u">>, <<"u">>>>,
       <<<<"y","o","u","r">>, <<"u","r">>>> >>

\* key in PHONETIC_RESPELLING_RULES
HasRule(key) == \E r \in Range(PHONETIC_RESPELLING_RULES) : r[1] = key

\* PHONETIC_RESPELLING_RULES[key]
Rule(key) == (CHOOSE r \in Range(PHONETIC_RESPELLING_RULES) : r[1] = key)[2]

\* A faulty variant of NoRuleApplied, which hands the word back.
NoRuleAppliedReturnsWord(word_lower) == {word_lower}

\* The list returned when no rule applied to word_lower: []
NoRuleApplied(word_lower) == {}

phonetic_respell(word) ==
    LET word_lower == Lower(word)
        ING == <<"i","n","g">>
        respelled == Prefix(word_lower, Len(word_lower) - 3) \o Rule(ING)
    IN  IF HasRule(word_lower) /\ Rule(word_lower) # word_lower
        THEN {{Rule(word_lower)}}
        ELSE IF /\ EndsWith(word_lower, ING) /\ HasRule(ING)
                /\ Len(word_lower) > 4
                /\ respelled # word_lower
             THEN {{respelled}}
             ELSE {NoRuleApplied(word_lower)}

(***************************************************************************)
(* Phonetic modification.                                                  *)
(***************************************************************************)
\* The number of modifications looked for, and the number of tries.
NumModificationsToTry == 1
ModifyTries == 10

\* A faulty variant of Others, which draws the replacement from both classes.
OthersOfAnyClass(alphabet, c) == SelectSeq(VOWELS \o CONSONANTS, LAMBDA x : x # c)

\* [x for x in alphabet if x != c]
Others(alphabet, c) == SelectSeq(alphabet, LAMBDA x : x # c)

\* One pass of the loop body: the words it can add to modified_versions (one
\* word or none).
ModifyOnce(word) ==
    UNION {LET original_char == word[char_index + 1]
               new_chars ==
                   IF original_char \in Range(VOWELS)
                   THEN RandomChoiceVocab(Others(VOWELS, original_char))
                   ELSE IF original_char \in Range(CONSONANTS)
                        THEN RandomChoiceVocab(Others(CONSONANTS, original_char))
                        ELSE {original_char}
           IN  {IF new_char # original_char /\ Len(word) > 2
                THEN {[word EXCEPT ![char_index + 1] = new_char]}
                ELSE {} : new_char \in new_chars} :
           char_index \in RandRange(Len(word))}

\* The values of modified_versions after k passes of the loop.
RECURSIVE ModifiedVersions(_, _)
ModifiedVersions(word, k) ==
    IF k = 0 THEN {{}}
    ELSE UNION {IF Cardinality(v) >= NumModificationsToTry THEN {v}
                ELSE {v \cup m : m \in ModifyOnce(word)} :
                   v \in ModifiedVersions(word, k - 1)}

modify_word_phonetically(word_in) ==
    LET word == Lower(word_in)
    IN  IF Len(word) < 2 THEN {{}} ELSE ModifiedVersions(word, ModifyTries)

(***************************************************************************)
(* The wildcard constructor.  A run of generate_wildcard_word is recorded  *)
(* as the value returned, the strategy calls made in order, each with the  *)
(* list it returned, and the number of random.choice calls made by the     *)
(* function itself.                                                        *)
(***************************************************************************)
\* The playful probability the wildcard constructor passes, in percent.
WildcardPlayfulProb == 70
\* The default playful probability of add_affixes, in percent.
DefaultPlayfulProb == 30

Call(fn, args, returned) == [fn |-> fn, args |-> args, returned |-> returned]

\* return random.choice(candidates), after the strategy calls `calls`
ReturnChoice(candidates, calls) ==
    {[value |-> v, calls |-> calls, draws |-> 3] : v \in candidates}

\* A faulty variant of WildcardRunsFor, which affixes the keyword before it
\* tries any blend.
WildcardRunsForAffixFirst(chosen_user_keyword, chosen_quirky_word) ==
    UNION {LET c == <<Call("add_affixes", <<chosen_user_keyword>>, affixed_user_key)>>
           IN  IF affixed_user_key # {}
               THEN ReturnChoice(affixed_user_key, c)
               ELSE {[value |-> chosen_user_keyword \o Prefix(chosen_quirky_word, 3),
                      calls |-> c, draws |-> 2]} :
           affixed_user_key \in add_affixes(chosen_user_keyword, WildcardPlayfulProb)}

\* The runs for the keyword and the quirky word chosen.
WildcardRunsFor(chosen_user_keyword, chosen_quirky_word) ==
    LET k == chosen_user_keyword
        q == chosen_quirky_word
        \* the runs in which neither blend found a word, after the calls c2
        fallbacks(c2) ==
            UNION {
              LET c3 == Append(c2, Call("add_affixes", <<k>>, affixed_user_key))
              IN  IF affixed_user_key # {}
                  THEN ReturnChoice(affixed_user_key, c3)
                  ELSE UNION {
                    LET c4 == Append(c3, Call("add_affixes", <<q>>, affixed_quirky))
                    IN  IF affixed_quirky # {}
                        THEN ReturnChoice(affixed_quirky, c4)
                        ELSE UNION {
                          LET c5 == Append(c4, Call("modify_word_phonetically", <<q>>,
                                                    modified_quirky))
                          IN  IF modified_quirky # {}
                              THEN ReturnChoice(modified_quirky, c5)
                              ELSE UNION {
                                LET c6 == Append(c5, Call("modify_word_phonetically",
                                                          <<k>>, modified_user_key))
                                IN  IF modified_user_key # {}
                                    THEN ReturnChoice(modified_user_key, c6)
                                    ELSE {[value |-> k \o Prefix(q, 3),
                                           calls |-> c6, draws |-> 2]} :
                                modified_user_key \in modify_word_phonetically(k)} :
                          modified_quirky \in modify_word_phonetically(q)} :
                    affixed_quirky \in add_affixes(q, WildcardPlayfulProb)} :
              affixed_user_key \in add_affixes(k, WildcardPlayfulProb)}
    IN  UNION {
          LET c1 == <<Call("blend_words", <<k, q>>, blended1)>>
          IN  IF blended1 # {}
              THEN ReturnChoice(blended1, c1)
              ELSE UNION {
                     LET c2 == Append(c1, Call("blend_words", <<q, k>>, blended2))
                     IN  IF blended2 # {}
                         THEN ReturnChoice(blended2, c2)
                         ELSE fallbacks(c2) :
                     blended2 \in blend_words(q, k)} :
          blended1 \in blend_words(k, q)}

\* What random.choice raises for an empty list.
IndexError == <<"IndexError">>

\* A faulty variant of WildcardRuns, which returns None only when both lists are
\* empty: the first draw from an empty list raises.
WildcardRunsBothEmpty(user_keywords, quirky_inspiration_list) ==
    IF user_keywords = <<>> /\ quirky_inspiration_list = <<>>
    THEN {[value |-> None, calls |-> <<>>, draws |-> 0]}
    ELSE IF user_keywords = <<>>
         THEN {[value |-> IndexError, calls |-> <<>>, draws |-> 1]}
         ELSE IF quirky_inspiration_list = <<>>
              THEN {[value |-> IndexError, calls |-> <<>>, draws |-> 2]}
              ELSE UNION {WildcardRunsFor(k, q) :
                             k \in RandomChoice(user_keywords),
                             q \in RandomChoiceVocab(quirky_inspiration_list)}

WildcardRuns(user_keywords, quirky_inspiration_list) ==
    IF user_keywords = <<>> \/ quirky_inspiration_list = <<>>
    THEN {[value |-> None, calls |-> <<>>, draws |-> 0]}
    ELSE UNION {WildcardRunsFor(k, q) :
                   k \in RandomChoice(user_keywords),
                   q \in RandomChoiceVocab(quirky_inspiration_list)}

\* The values generate_wildcard_word can return.
generate_wildcard_word(user_keywords, quirky_inspiration_list) ==
    {r.value : r \in WildcardRuns(user_keywords, quirky_inspiration_list)}

(***************************************************************************)
(* The orchestrator, generate_new_words.                                   *)
(***************************************************************************)
\* The attempts allowed per regular word, and the attempts allowed on top.
AttemptsPerWord == 20
ExtraAttempts == 20
\* The chance, in percent, of drawing two base words.
TwoWordsProb == 60

\* The strategies list.
strategies ==
    <<"blend_words", "add_affixes", "clip_word", "modify_word_phonetically",
      "reduplicate_word", "phonetic_respell">>

\* The calls explored: the keywords given and the list get_related_words
\* returns for them (lower-case words of more than two characters, none of
\* them a cleaned keyword).  The last two calls give a keyword with a capital
\* and a trailing blank next to one of two characters, and a keyword of
\* sixteen characters, none a letter.
Calls ==
    {[keywords |-> <<>>, related |-> <<>>],
     [keywords |-> <<<<"D","o","g">>>>, related |-> <<<<"b","o","g">>, <<"c","o","g">>>>],
     [keywords |-> <<<<"c","a","t">>>>, related |-> <<<<"m","u","f","f","l","e">>>>],
     [keywords |-> <<<<"d","o","g">>, <<"d","o","m","m","o","x">>>>, related |-> <<<<"b","o","g">>>>],
     [keywords |-> <<<<"a","b">>>>, related |-> <<>>],
     [keywords |-> <<<<"c","a","t">>>>, related |-> <<>>],
     [keywords |-> <<<<"H","i"," ">>, <<"a","b">>>>, related |-> <<>>],
     [keywords |-> <<<<"1","2","3","4","5","6","7","8","9","0","1","2","3","4","5","6">>>>,
      related |-> <<>>]}

VARIABLES
    keywords,                 \* the argument keywords
    num_to_generate,          \* the argument num_to_generate
    related,                  \* what get_related_words returns in this call
    pc,                       \* "start", "loop", "wildcard" or "done"
    related_words_pool,
    generated_words,
    num_regular_to_generate,
    attempts,
    max_attempts,
    result,                   \* the dictionary returned, None before
    wc_pc,                    \* a call of generate_wildcard_word: "start" or "done"
    wc_keywords,              \* its argument user_keywords
    wc_quirky,                \* its argument quirky_inspiration_list
    wc_run,                   \* its run, None before
    st_pc,                    \* a call of one strategy: "start" or "done"
    st_func,                  \* the strategy called
    st_word1,                 \* its argument (word, or word1 of blend_words)
    st_word2,                 \* word2 of blend_words, None otherwise
    st_out,                   \* the list it returned, None before
    two_pc,                   \* two returns on the same draws: "start", "first" or "done"
    two_in,                   \* what the two runs share, None before
    two_out                   \* the dictionaries the two runs return, None before

gen_vars ==
    <<keywords, num_to_generate, related, pc, related_words_pool, generated_words,
      num_regular_to_generate, attempts, max_attempts, result>>

wc_vars == <<wc_pc, wc_keywords, wc_quirky, wc_run>>

st_vars == <<st_pc, st_func, st_word1, st_word2, st_out>>

two_vars == <<two_pc, two_in, two_out>>

vars == <<gen_vars, wc_vars, st_vars, two_vars>>

\* No call of generate_new_words is explored.
GenIdle ==
    /\ keywords = <<>>
    /\ num_to_generate = 0
    /\ related = <<>>
    /\ pc = "idle"
    /\ related_words_pool = <<>>
    /\ generated_words = {}
    /\ num_regular_to_generate = 0
    /\ attempts = 0
    /\ max_attempts = 0
    /\ result = None

\* No call of generate_wildcard_word on its own is explored.
WcIdle ==
    /\ wc_pc = "idle"
    /\ wc_keywords = <<>>
    /\ wc_quirky = <<>>
    /\ wc_run = None

\* No call of a strategy on its own is explored.
StIdle ==
    /\ st_pc = "idle"
    /\ st_func = None
    /\ st_word1 = None
    /\ st_word2 = None
    /\ st_out = None

\* No pair of runs is explored.
TwoIdle ==
    /\ two_pc = "idle"
    /\ two_in = None
    /\ two_out = None

Result(regular_words, wildcard_word) ==
    [regular_words |-> regular_words, wildcard_word |-> wildcard_word]

\* A faulty variant of EmptyResult, which returns an empty string for the wildcard.
EmptyResultEmptyString == Result(<<>>, <<>>)

\* {"regular_words": [], "wildcard_word": None}
EmptyResult == Result(<<>>, None)

\* A faulty variant of NumRegular, which reserves no slot for the wildcard.
NumRegularNoWildcardSlot(n) == IF n >= 1 THEN n ELSE 0

\* num_to_generate - 1 if num_to_generate >= 1 else 0
NumRegular(n) == IF n >= 1 THEN n - 1 ELSE 0

\* A faulty variant of KeywordPool, which keeps the keywords of one or two
\* characters.
KeywordPoolOfAll(kws) ==
    LET KeepKeyword(k) == Strip(k) # <<>>
        kept == SelectSeq(kws, KeepKeyword)
    IN  [i \in 1..Len(kept) |-> Strip(Lower(kept[i]))]

\* [k.lower().strip() for k in keywords if k.strip() and len(k) > 2]
KeywordPool(kws) ==
    LET KeepKeyword(k) == Strip(k) # <<>> /\ Len(k) > 2
        kept == SelectSeq(kws, KeepKeyword)
    IN  [i \in 1..Len(kept) |-> Strip(Lower(kept[i]))]

\* The pool of a call: the related words, or the keywords if there are none.
PoolOf(kws, rel) == IF rel # <<>> THEN rel ELSE KeywordPool(kws)

\* generate_wildcard_word(kws, QUIRKY_WORDS) for the keywords of each call
\* explored, computed once.
Wildcards ==
    [kws \in {c.keywords : c \in Calls} |-> generate_wildcard_word(kws, QUIRKY_WORDS)]

\* A faulty variant of WildcardOf, which builds a wildcard only when regular
\* words are requested too.
WildcardOfFromTwo(kws, n) == IF n >= 2 THEN Wildcards[kws] ELSE {None}

\* The wildcard of a call: generate_wildcard_word(keywords, QUIRKY_WORDS) if
\* num_to_generate >= 1 else None
WildcardOf(kws, n) == IF n >= 1 THEN Wildcards[kws] ELSE {None}

Init ==
    /\ \E c \in Calls : keywords = c.keywords /\ related = c.related
    /\ num_to_generate \in (0 - MaxNeg)..MaxN
    /\ pc = "start"
    /\ related_words_pool = <<>>
    /\ generated_words = {}
    /\ num_regular_to_generate = 0
    /\ attempts = 0
    /\ max_attempts = 0
    /\ result = None
    /\ WcIdle
    /\ StIdle
    /\ TwoIdle

\* From the entry of generate_new_words to the first test of the loop.
Begin ==
    /\ pc = "start"
    /\ UNCHANGED <<keywords, num_to_generate, related, generated_words, attempts>>
    /\ UNCHANGED <<wc_vars, st_vars, two_vars>>
    /\ IF keywords = <<>> \/ num_to_generate <= 0
       THEN /\ result' = EmptyResult
            /\ pc' = "done"
            /\ UNCHANGED <<related_words_pool, num_regular_to_generate, max_attempts>>
       ELSE LET pool == PoolOf(keywords, related)
            IN  /\ related_words_pool' = pool
                /\ IF pool = <<>>
                   THEN /\ \E wildcard \in WildcardOf(keywords, num_to_generate) :
                               result' = Result(<<>>, wildcard)
                        /\ pc' = "done"
                        /\ UNCHANGED <<num_regular_to_generate, max_attempts>>
                   ELSE /\ num_regular_to_generate' = NumRegular(num_to_generate)
                        /\ max_attempts' =
                               num_regular_to_generate' * AttemptsPerWord + ExtraAttempts
                        /\ pc' = "loop"
                        /\ UNCHANGED result

\* A faulty variant of LoopGoesOn, which allows one attempt more.
LoopGoesOnOneMore ==
    Cardinality(generated_words) < num_regular_to_generate /\ attempts <= max_attempts

\* A faulty variant of LoopGoesOn, which gives up one attempt early.
LoopGoesOnOneLess ==
    Cardinality(generated_words) < num_regular_to_generate /\ attempts < max_attempts - 1

\* The test of the while loop.
LoopGoesOn ==
    Cardinality(generated_words) < num_regular_to_generate /\ attempts < max_attempts

\* The base words drawn for one attempt: <<base1, base2>>, base2 None when
\* one word is drawn.
BaseWords(pool) ==
    (IF Len(pool) >= 2 /\ TRUE \in Coin(TwoWordsProb) THEN Sample2(pool) ELSE {})
    \cup
    (IF Len(pool) < 2 \/ FALSE \in Coin(TwoWordsProb)
     THEN {<<base1, None>> : base1 \in RandomChoice(pool)} ELSE {})

\* What a strategy call of the loop can do: return a list, or raise.
Returned(lists) == {[raised |-> FALSE, words |-> l] : l \in lists}

Raised == {[raised |-> TRUE, words |-> {}]}

\* random.choice(s), which raises IndexError for an empty s, followed by
\* `if temp_base2:` and the blend with temp_base2, lower-cased and trimmed
\* when it is drawn from the keywords
BlendWithChoice(base1, s, from_keywords) ==
    IF s = <<>> THEN Raised
    ELSE UNION {IF temp_base2 # <<>>
                THEN Returned(blend_words(base1, IF from_keywords
                                                 THEN Strip(Lower(temp_base2))
                                                 ELSE temp_base2))
                ELSE Returned({{}}) :
                temp_base2 \in RandomChoice(s)}

\* The body of the try statement.
StrategyCall(strategy_func, base1, base2, pool, kws) ==
    LET NotBase1(x) == x # base1
        NotBase1Keyword(k) == Strip(Lower(k)) # base1
    IN  CASE strategy_func = "blend_words" ->
                 IF base2 # None /\ base2 # <<>>
                 THEN Returned(blend_words(base1, base2))
                 ELSE IF Len(pool) >= 2
                      THEN BlendWithChoice(base1, SelectSeq(pool, NotBase1), FALSE)
                      ELSE IF kws # <<>>
                           THEN BlendWithChoice(base1, SelectSeq(kws, NotBase1Keyword),
                                                TRUE)
                           ELSE Returned({{}})
          [] strategy_func = "add_affixes" ->
                 Returned(add_affixes(base1, DefaultPlayfulProb))
          [] strategy_func = "clip_word" -> Returned(clip_word(base1))
          [] strategy_func = "modify_word_phonetically" ->
                 Returned(modify_word_phonetically(base1))
          [] strategy_func = "reduplicate_word" -> Returned(reduplicate_word(base1))
          [] strategy_func = "phonetic_respell" -> Returned(phonetic_respell(base1))

\* A faulty variant of PassesFilter, which does not look at the length.
PassesFilterAnyLength(word, kws) == word # <<>> /\ word \notin Range(kws)


\* The basic quality filter of the loop.
PassesFilter(word, kws) ==
    word # <<>> /\ word \notin Range(kws) /\ Len(word) > 2 /\ Len(word) < 20

\* The values of generated_words after the pass over new_potentials, which
\* stops as soon as the set holds `target` words.  The order of the pass is
\* that of a list built from a set.
AddPotentials(generated, new_potentials, kws, target) ==
    LET new == {x \in new_potentials : PassesFilter(x, kws)} \ generated
        room == target - Cardinality(generated)
    IN  IF Cardinality(new) <= room THEN {generated \cup new}
        ELSE {generated \cup t : t \in {x \in SUBSET new : Cardinality(x) = room}}

\* What one attempt can do: the base words and the strategy are drawn, and
\* the strategy is called.
AttemptOutcomes(pool, kws) ==
    UNION {StrategyCall(strategy_func, b[1], b[2], pool, kws) :
              b \in BaseWords(pool), strategy_func \in RandomChoice(strategies)}

\* AttemptOutcomes for the pool and keywords of each call explored, computed
\* once.
Attempts ==
    [x \in {<<PoolOf(c.keywords, c.related), c.keywords>> : c \in Calls} |->
        IF x[1] = <<>> THEN {} ELSE AttemptOutcomes(x[1], x[2])]

\* One pass of the loop in which the strategy returns.
Attempt ==
    /\ pc = "loop"
    /\ LoopGoesOn
    /\ attempts' = attempts + 1
    /\ \E o \in Attempts[<<related_words_pool, keywords>>] :
          /\ ~o.raised
          /\ generated_words' \in
                 AddPotentials(generated_words, o.words, keywords,
                               num_regular_to_generate)
    /\ UNCHANGED <<keywords, num_to_generate, related, pc, related_words_pool,
                   num_regular_to_generate, max_attempts, result>>
    /\ UNCHANGED <<wc_vars, st_vars, two_vars>>

\* A faulty variant of AttemptRaises, in which the exception ends the loop.
AttemptRaisesEndsLoop ==
    /\ pc = "loop"
    /\ LoopGoesOn
    /\ attempts' = attempts + 1
    /\ \E o \in Attempts[<<related_words_pool, keywords>>] : o.raised
    /\ pc' = "wildcard"
    /\ UNCHANGED <<keywords, num_to_generate, related, related_words_pool,
                   generated_words, num_regular_to_generate, max_attempts, result>>
    /\ UNCHANGED <<wc_vars, st_vars, two_vars>>

\* One pass of the loop in which the strategy raises: the exception is
\* caught and the loop continues.
AttemptRaises ==
    /\ pc = "loop"
    /\ LoopGoesOn
    /\ attempts' = attempts + 1
    /\ \E o \in Attempts[<<related_words_pool, keywords>>] : o.raised
    /\ UNCHANGED <<keywords, num_to_generate, related, pc, related_words_pool,
                   generated_words, num_regular_to_generate, max_attempts, result>>
    /\ UNCHANGED <<wc_vars, st_vars, two_vars>>

\* The list returned as regular_words: final_regular_words[:num_regular]
RegularWords(generated, target) == {Prefix(l, target) : l \in Shuffle(generated)}

\* A faulty variant of ExitLoop, which leaves the loop only on the target:
\* with the attempts used up the loop neither runs a pass nor ends.
ExitLoopOnTargetOnly ==
    /\ pc = "loop"
    /\ Cardinality(generated_words) >= num_regular_to_generate
    /\ pc' = "wildcard"
    /\ attempts' = 0
    /\ UNCHANGED <<keywords, num_to_generate, related, related_words_pool,
                   generated_words, num_regular_to_generate, max_attempts, result>>
    /\ UNCHANGED <<wc_vars, st_vars, two_vars>>

\* The loop ends: the target is reached or the attempts are used up.  The
\* attempt counter is not read after the loop and is dropped here.
ExitLoop ==
    /\ pc = "loop"
    /\ ~LoopGoesOn
    /\ pc' = "wildcard"
    /\ attempts' = 0
    /\ UNCHANGED <<keywords, num_to_generate, related, related_words_pool,
                   generated_words, num_regular_to_generate, max_attempts, result>>
    /\ UNCHANGED <<wc_vars, st_vars, two_vars>>

\* From the wildcard to the return.  The set of words, a local of the call,
\* is dropped on return.
Finish ==
    /\ pc = "wildcard"
    /\ \E wildcard \in WildcardOf(keywords, num_to_generate) :
       \E regular \in RegularWords(generated_words, num_regular_to_generate) :
          result' = Result(regular, wildcard)
    /\ pc' = "done"
    /\ generated_words' = {}
    /\ UNCHANGED <<keywords, num_to_generate, related, related_words_pool,
                   num_regular_to_generate, attempts, max_attempts>>
    /\ UNCHANGED <<wc_vars, st_vars, two_vars>>

Next == Begin \/ Attempt \/ AttemptRaises \/ ExitLoop \/ Finish

Spec == Init /\ [][Next]_vars

\* The call runs on one thread that nothing suspends: a step that can be
\* taken is taken.
FairSpec == Spec /\ WF_vars(Next)

(***************************************************************************)
(* generate_wildcard_word called on its own.                               *)
(***************************************************************************)
\* The keyword lists explored.
WildcardKeywordLists ==
    {<<>>,
     <<<<"c","a","t">>>>,
     <<<<"D","o","g">>, <<"d","o","m","m","o","x">>>>,
     <<<<"a">>>>,
     <<<<"x","1","y">>>>,
     <<<<"p","r","e">>>>}

\* The quirky lists explored.
WildcardQuirkyLists ==
    {QUIRKY_WORDS,
     <<>>,
     <<<<"1","2">>>>,
     <<<<"p","r","o">>>>,
     <<<<"f","l","u","m","m","o","x">>, <<"1","2">>>>}

InitWildcard ==
    /\ GenIdle
    /\ StIdle
    /\ TwoIdle
    /\ wc_pc = "start"
    /\ wc_keywords \in WildcardKeywordLists
    /\ wc_quirky \in WildcardQuirkyLists
    /\ wc_run = None

\* The call, from entry to return.
CallWildcard ==
    /\ wc_pc = "start"
    /\ wc_run' \in WildcardRuns(wc_keywords, wc_quirky)
    /\ wc_pc' = "done"
    /\ UNCHANGED <<wc_keywords, wc_quirky>>
    /\ UNCHANGED <<gen_vars, st_vars, two_vars>>

NextWildcard == CallWildcard

SpecWildcard == InitWildcard /\ [][NextWildcard]_vars

(***************************************************************************)
(* A strategy called on its own.                                           *)
(***************************************************************************)
\* The longest word that is enumerated letter by letter.
MaxWordLen == 3

\* The letters of the enumerated words.
StrategyAlphabet == {"a", "b", "A"}

\* The words of k letters.
RECURSIVE WordsOfLen(_)
WordsOfLen(k) ==
    IF k = 0 THEN {<<>>}
    ELSE {Append(w, c) : w \in WordsOfLen(k - 1), c \in StrategyAlphabet}

\* Words of the tests and of the documentation.
SampleWords ==
    {<<"c","a","t">>,
     <<"w","o","n","d","e","r">>,
     <<"h","a","p","p","y">>,
     <<"r","u","n","n","i","n","g">>,
     <<"r","i","n","g">>,
     <<"B","r","i","n","g">>,
     <<"i","n","f","o">>,
     <<"H","e","l","l","o">>,
     <<"b","r","u","n","c","h">>,
     <<"l","u","n","c","h">>,
     <<"t","e","s","t">>,
     <<"c","o","o","l">>,
     <<"x","1","y">>,
     <<"I","N","G">>,
     <<"s","c","h","o","o","l">>,
     <<"y","o","u">>,
     <<"y","o","u","t","h">>,
     <<"e","b","b","s">>,
     <<"b","a","k","e">>,
     <<"s","h","o","w">>,
     <<"i","n","c","o","m","p","r","e","h","e","n","s","i","b","i","l","i","t","i","e","s">>,
     <<"p","n","e","u","m","o","n","o","u","l","t","r","a","m","i","c","r","o","s","c","o","p","i","c">>}

\* The words a strategy is called with.
StrategyWords == SampleWords \cup UNION {WordsOfLen(k) : k \in 0..MaxWordLen}

InitStrategy ==
    /\ GenIdle
    /\ WcIdle
    /\ TwoIdle
    /\ st_pc = "start"
    /\ st_func \in Range(strategies)
    /\ st_word1 \in StrategyWords
    /\ st_word2 \in IF st_func = "blend_words" THEN StrategyWords ELSE {None}
    /\ st_out = None

\* Each strategy's call, from entry to return.
CallBlendWords ==
    /\ st_pc = "start"
    /\ st_func = "blend_words"
    /\ st_out' \in blend_words(st_word1, st_word2)
    /\ st_pc' = "done"
    /\ UNCHANGED <<st_func, st_word1, st_word2>>
    /\ UNCHANGED <<gen_vars, wc_vars, two_vars>>

CallAddAffixes ==
    /\ st_pc = "start"
    /\ st_func = "add_affixes"
    /\ st_out' \in add_affixes(st_word1, DefaultPlayfulProb)
    /\ st_pc' = "done"
    /\ UNCHANGED <<st_func, st_word1, st_word2>>
    /\ UNCHANGED <<gen_vars, wc_vars, two_vars>>

CallClipWord ==
    /\ st_pc = "start"
    /\ st_func = "clip_word"
    /\ st_out' \in clip_word(st_word1)
    /\ st_pc' = "done"
    /\ UNCHANGED <<st_func, st_word1, st_word2>>
    /\ UNCHANGED <<gen_vars, wc_vars, two_vars>>

CallModifyWordPhonetically ==
    /\ st_pc = "start"
    /\ st_func = "modify_word_phonetically"
    /\ st_out' \in modify_word_phonetically(st_word1)
    /\ st_pc' = "done"
    /\ UNCHANGED <<st_func, st_word1, st_word2>>
    /\ UNCHANGED <<gen_vars, wc_vars, two_vars>>

CallReduplicateWord ==
    /\ st_pc = "start"
    /\ st_func = "reduplicate_word"
    /\ st_out' \in reduplicate_word(st_word1)
    /\ st_pc' = "done"
    /\ UNCHANGED <<st_func, st_word1, st_word2>>
    /\ UNCHANGED <<gen_vars, wc_vars, two_vars>>

CallPhoneticRespell ==
    /\ st_pc = "start"
    /\ st_func = "phonetic_respell"
    /\ st_out' \in phonetic_respell(st_word1)
    /\ st_pc' = "done"
    /\ UNCHANGED <<st_func, st_word1, st_word2>>
    /\ UNCHANGED <<gen_vars, wc_vars, two_vars>>

NextStrategy ==
    \/ CallBlendWords
    \/ CallAddAffixes
    \/ CallClipWord
    \/ CallModifyWordPhonetically
    \/ CallReduplicateWord
    \/ CallPhoneticRespell

SpecStrategy == InitStrategy /\ [][NextStrategy]_vars

(***************************************************************************)
(* The return of generate_new_words in two runs that hold the same words   *)
(* and make the same random draws.  The lists the code builds from sets    *)
(* are in the order in which the set is iterated, which depends on the     *)
(* hashes of the strings of the run and not on the draws.                  *)
(***************************************************************************)
\* list(a_set): the elements in the order of the set's iteration.
RECURSIVE ListOfSet(_)
ListOfSet(S) ==
    IF S = {} THEN {<<>>}
    ELSE UNION {{<<x>> \o l : l \in ListOfSet(S \ {x})} : x \in S}

\* The draws random.shuffle makes for a list of n elements: for i from n - 1
\* down to 1, a position j with 0 <= j <= i.
ShuffleDraws(n) == {d \in [1..(n - 1) -> 0..(n - 1)] : \A i \in 1..(n - 1) : d[i] <= i}

\* random.shuffle(x) from position i down, for the draws given: x[i] and x[j]
\* are swapped (positions counted from 0).
RECURSIVE ShuffleBy(_, _, _)
ShuffleBy(x, draws, i) ==
    IF i < 1 THEN x
    ELSE ShuffleBy([x EXCEPT ![i + 1] = x[draws[i] + 1], ![draws[i] + 1] = x[i + 1]],
                   draws, i - 1)

\* random.choice(seq) for the position drawn (counted from 0).
ChoiceBy(seq, draw) == seq[draw + 1]

\* The words the two runs can hold in generated_words.
TwoRunWords == {<<"c","o","o","g">>, <<"c","o","g","c","o","g">>, <<"b","o","g","g">>}

\* The dictionaries a run can return: list(generated_words), shuffled and cut
\* to num_regular_to_generate words, and random.choice of the blends.
ReturnOfRun(in) ==
    {Result(Prefix(ShuffleBy(l, in.shuffle, Len(l) - 1), in.num_regular_to_generate),
            ChoiceBy(b, in.choice)) :
        l \in ListOfSet(in.generated_words), b \in ListOfSet(in.blended_wildcards)}

InitTwoRuns ==
    /\ GenIdle
    /\ WcIdle
    /\ StIdle
    /\ two_pc = "start"
    /\ \E words \in SUBSET TwoRunWords :
       \E blends \in blend_words(<<"D","o","g">>, QUIRKY_WORDS[1]) \ {{}} :
          two_in \in [generated_words : {words},
                      num_regular_to_generate : Cardinality(words)..(MaxN - 1),
                      blended_wildcards : {blends},
                      shuffle : ShuffleDraws(Cardinality(words)),
                      choice : 0..(Cardinality(blends) - 1)]
    /\ two_out = None

\* The first run returns.
ReturnFirst ==
    /\ two_pc = "start"
    /\ \E r \in ReturnOfRun(two_in) : two_out' = <<r>>
    /\ two_pc' = "first"
    /\ UNCHANGED two_in
    /\ UNCHANGED <<gen_vars, wc_vars, st_vars>>

\* The second run returns.
ReturnSecond ==
    /\ two_pc = "first"
    /\ \E r \in ReturnOfRun(two_in) : two_out' = Append(two_out, r)
    /\ two_pc' = "done"
    /\ UNCHANGED two_in
    /\ UNCHANGED <<gen_vars, wc_vars, st_vars>>

NextTwoRuns == ReturnFirst \/ ReturnSecond

SpecTwoRuns == InitTwoRuns /\ [][NextTwoRuns]_vars

(***************************************************************************)
(* Properties of generate_new_words, under Spec.                           *)
(***************************************************************************)
CallReturned == pc = "done"

RegularWordsReturned == Range(result.regular_words)

UpperCaseLetters == Range(ASCII_UPPERCASE)

UpperCaseFree(word) == \A i \in DOMAIN word : word[i] \notin UpperCaseLetters

\* C1: a call with a requested count <= 0, or with no keywords, returns
\* exactly {regular_words: [], wildcard_word: None}.
C1_EmptyCallReturnsEmpty ==
    (CallReturned /\ (num_to_generate <= 0 \/ keywords = <<>>))
        => result = [regular_words |-> <<>>, wildcard_word |-> None]

\* A call with keywords and a requested count <= 0 has returned the empty result.
C1_Witness ==
    /\ CallReturned /\ keywords # <<>> /\ num_to_generate <= 0
    /\ result = [regular_words |-> <<>>, wildcard_word |-> None]

\* C2: no element of regular_words is equal to wildcard_word.
C2_RegularNeverWildcard ==
    CallReturned => result.wildcard_word \notin RegularWordsReturned

\* C3: no element of regular_words is equal to a normalized keyword (the
\* keyword lower-cased and trimmed).
C3_RegularNeverKeyword ==
    CallReturned => \A k \in Range(keywords) : Strip(Lower(k)) \notin RegularWordsReturned

\* C4: no element of regular_words is equal to an entry of the related-word
\* pool the lexical relation source returned for the call.
C4_RegularNeverRelated ==
    CallReturned => \A r \in Range(related) : r \notin RegularWordsReturned

\* C5 as claimed: len(regular_words) <= max(n - 1, 0), len(regular_words) +
\* (1 if wildcard_word is set else 0) <= n, and wildcard_word is set only
\* when n >= 1, for every requested count n.
C5_CountsWithinRequest ==
    CallReturned =>
        /\ Len(result.regular_words) <= Max(num_to_generate - 1, 0)
        /\ Len(result.regular_words) + (IF result.wildcard_word # None THEN 1 ELSE 0)
               <= num_to_generate
        /\ (result.wildcard_word # None => num_to_generate >= 1)

\* C5 as amended: the same with the total bounded by max(n, 0), as a negative
\* count returns the empty result.
C5_CountsWithinRequestOrZero ==
    CallReturned =>
        /\ Len(result.regular_words) <= Max(num_to_generate - 1, 0)
        /\ Len(result.regular_words) + (IF result.wildcard_word # None THEN 1 ELSE 0)
               <= Max(num_to_generate, 0)
        /\ (result.wildcard_word # None => num_to_generate >= 1)

\* A call has returned as many words as requested: n - 1 regular words and
\* the wildcard, for n >= 2.
C5_Witness ==
    /\ CallReturned /\ num_to_generate >= 2
    /\ Len(result.regular_words) = num_to_generate - 1
    /\ result.wildcard_word # None

\* C6: regular_words never contains the same string twice.
C6_RegularWordsDistinct ==
    CallReturned =>
        \A i, j \in DOMAIN result.regular_words :
            i # j => result.regular_words[i] # result.regular_words[j]

\* A call has returned two regular words or more.
C6_Witness == CallReturned /\ Len(result.regular_words) >= 2

\* C7: no string returned, in regular_words or as wildcard_word, contains an
\* upper-case letter.
C7_ReturnedWordsLowerCase ==
    CallReturned =>
        /\ \A x \in RegularWordsReturned : UpperCaseFree(x)
        /\ (result.wildcard_word # None => UpperCaseFree(result.wildcard_word))

\* A call given a keyword with an upper-case letter has returned a regular
\* word and a wildcard.
C7_Witness ==
    /\ CallReturned
    /\ \E k \in Range(keywords) : ~UpperCaseFree(k)
    /\ result.regular_words # <<>>
    /\ result.wildcard_word # None

\* C8: a wildcard_word returned passes the acceptance filter: it is not
\* empty, has at least 4 characters, and is not equal to a keyword when case
\* is ignored.
C8_WildcardPassesFilter ==
    (CallReturned /\ result.wildcard_word # None) =>
        /\ result.wildcard_word # <<>>
        /\ Len(result.wildcard_word) >= 4
        /\ \A k \in Range(keywords) : Lower(result.wildcard_word) # Lower(k)

\* C10 as claimed: for a non-empty keyword list and a requested count
\* n >= 1, exactly n - 1 regular words are returned.
C10_ExactlyRequestedCount ==
    (CallReturned /\ keywords # <<>> /\ num_to_generate >= 1)
        => Len(result.regular_words) = num_to_generate - 1

\* C10 as amended: for a non-empty keyword list and a requested count
\* n >= 1, the words returned are those accumulated by the loop, at most
\* n - 1; the loop ends short of n - 1 words only with its attempts used up,
\* and no loop is run only when the pool of base words is empty.
C10_RequestedCountUnlessExhausted ==
    [][/\ (pc = "start" /\ pc' = "done" /\ keywords # <<>> /\ num_to_generate >= 1)
            => (related_words_pool' = <<>> /\ result'.regular_words = <<>>)
       /\ (pc = "loop" /\ pc' = "wildcard")
            => \/ Cardinality(generated_words) = num_to_generate - 1
               \/ /\ Cardinality(generated_words) < num_to_generate - 1
                  /\ attempts = max_attempts
       /\ (pc = "wildcard" /\ pc' = "done")
            => Len(result'.regular_words) = Cardinality(generated_words)]_vars

\* A call with a pool of base words has returned fewer than n - 1 regular
\* words.
C10_Witness ==
    /\ CallReturned /\ related_words_pool # <<>> /\ num_to_generate >= 2
    /\ Len(result.regular_words) < num_to_generate - 1

\* C11: for a non-empty keyword list and a requested count n >= 1, the
\* wildcard_word returned is a non-empty string and never None, on every
\* path including the one where the pool of base words is empty.
C11_WildcardAlwaysBuilt ==
    (CallReturned /\ keywords # <<>> /\ num_to_generate >= 1)
        => /\ result.wildcard_word # None
           /\ result.wildcard_word # <<>>
           /\ result.wildcard_word # IndexError

\* A call whose pool of base words is empty has returned a wildcard.
C11_Witness ==
    /\ CallReturned /\ keywords # <<>> /\ num_to_generate >= 1
    /\ related_words_pool = <<>>
    /\ result.wildcard_word # None

\* C12: generate_new_words terminates on every sequence of random draws, and
\* when the attempts run out before the target is reached it returns the
\* words accumulated so far, fewer than requested.  Checked under FairSpec.
C12_TerminatesWithWordsSoFar ==
    /\ <>CallReturned
    /\ [][(/\ pc = "wildcard" /\ pc' = "done"
           /\ Cardinality(generated_words) < num_regular_to_generate)
            => /\ Range(result'.regular_words) = generated_words
               /\ Len(result'.regular_words) < num_regular_to_generate
               /\ Len(result'.regular_words) = Cardinality(generated_words)]_vars

\* A call that ran the loop has returned fewer regular words than its target.
C12_Witness ==
    /\ CallReturned /\ num_regular_to_generate >= 1
    /\ Len(result.regular_words) < num_regular_to_generate

\* C13: when a strategy call of the loop raises, the exception does not
\* leave generate_new_words: the words accepted so far are unchanged, the
\* attempt is counted, and the loop goes on.
C13_RaiseIsCaught ==
    [][AttemptRaises =>
          /\ generated_words' = generated_words
          /\ attempts' = attempts + 1
          /\ pc' = "loop"
          /\ result' = result]_vars

\* The loop has accepted a word and made an attempt, and a strategy call can
\* raise for its pool.
C13_Witness ==
    /\ pc = "loop" /\ attempts >= 2 /\ generated_words # {}
    /\ \E o \in Attempts[<<related_words_pool, keywords>>] : o.raised

\* C20 as claimed: with `remaining` regular words to produce, the loop makes
\* at most remaining * 20 attempts.
C20_AttemptsWithinTwentyPerWord ==
    pc = "loop" => attempts <= num_regular_to_generate * 20

\* C20 as amended: with `remaining` regular words to produce, the loop makes
\* at most remaining * 20 + 20 attempts.
C20_AttemptsWithinBudget ==
    pc = "loop" => attempts <= num_regular_to_generate * 20 + 20

\* The loop has made remaining * 20 + 20 attempts, for remaining >= 1.
C20_Witness ==
    /\ pc = "loop" /\ num_regular_to_generate >= 1
    /\ attempts = num_regular_to_generate * 20 + 20

\* The call went past the construction of the pool, with nothing from
\* get_related_words.
PoolFromKeywords ==
    /\ pc \in {"loop", "wildcard", "done"}
    /\ keywords # <<>> /\ num_to_generate >= 1
    /\ related = <<>>

\* C21 (as stated): when get_related_words returns an empty list, the pool of
\* base words is exactly the set of the normalized keywords, each keyword
\* lowercased and trimmed and the empty ones discarded, so that a keyword of
\* one or two characters is in the pool too.
C21_PoolIsNormalizedKeywords ==
    PoolFromKeywords
        => Range(related_words_pool) =
               {Strip(Lower(k)) : k \in {x \in Range(keywords) : Strip(x) # <<>>}}

\* C21 (amended): when get_related_words returns an empty list, the pool of
\* base words is the set of the keywords lowercased and trimmed, taken over the
\* keywords that are not blank and have more than two characters as given
\* (blanks included); a keyword of one or two characters is left out.
C21_PoolIsLongNormalizedKeywords ==
    PoolFromKeywords
        => Range(related_words_pool) =
               {Strip(Lower(k)) :
                   k \in {x \in Range(keywords) : Strip(x) # <<>> /\ Len(x) > 2}}

\* The pool was built from keywords of which one has two characters and is left
\* out, and another was lowercased and trimmed.
C21_Witness ==
    /\ PoolFromKeywords /\ pc = "loop"
    /\ \E k \in Range(keywords) :
          Len(k) <= 2 /\ Strip(Lower(k)) \notin Range(related_words_pool)
    /\ \E k \in Range(keywords) :
          Strip(Lower(k)) # k /\ Strip(Lower(k)) \in Range(related_words_pool)

\* C30: every regular word returned has between 3 and 19 characters, whatever
\* strategy produced it.
C30_RegularWordsThreeToNineteen ==
    CallReturned => \A w \in RegularWordsReturned : Len(w) >= 3 /\ Len(w) <= 19

\* A regular word of 19 characters was returned, made from a base word of 16
\* characters, to which add_affixes can also give 20 characters or more.
C30_Witness ==
    /\ CallReturned
    /\ \E b \in Range(related_words_pool) : Len(b) = 16
    /\ \E w \in RegularWordsReturned : Len(w) = 19

(***************************************************************************)
(* Properties of generate_wildcard_word, under SpecWildcard.               *)
(***************************************************************************)
\* C9: with an empty keyword list or an empty quirky vocabulary,
\* generate_wildcard_word returns None, having drawn nothing at random and
\* called no strategy.
C9_EmptyInputNoWildcard ==
    (wc_pc = "done" /\ (wc_keywords = <<>> \/ wc_quirky = <<>>))
        => (wc_run.value = None /\ wc_run.draws = 0 /\ wc_run.calls = <<>>)

\* A call with keywords and an empty quirky vocabulary has returned.
C9_Witness == wc_pc = "done" /\ wc_keywords # <<>> /\ wc_quirky = <<>>

\* The strategy calls of generate_wildcard_word in the order of the code, for
\* the keyword k and the quirky word q it drew.
WildcardOrder(k, q) ==
    << [fn |-> "blend_words", args |-> <<k, q>>],
       [fn |-> "blend_words", args |-> <<q, k>>],
       [fn |-> "add_affixes", args |-> <<k>>],
       [fn |-> "add_affixes", args |-> <<q>>],
       [fn |-> "modify_word_phonetically", args |-> <<q>>],
       [fn |-> "modify_word_phonetically", args |-> <<k>>] >>

\* C22: generate_wildcard_word consults its sources in a fixed order, the blend
\* of keyword and quirky word, the blend of quirky word and keyword, the affixes
\* of the keyword, the affixes of the quirky word, then the phonetic
\* modifications; every source consulted before the last returned nothing, and
\* the value returned is an element of the last one when it is not empty (when
\* all six are empty, the keyword followed by three characters of the quirky
\* word).
C22_SourcesInPriorityOrder ==
    (wc_pc = "done" /\ wc_keywords # <<>> /\ wc_quirky # <<>>)
        => LET calls == wc_run.calls
               n == Len(calls)
           IN  /\ n \in 1..6
               /\ \A i \in 1..(n - 1) : calls[i].returned = {}
               /\ \E k \in Range(wc_keywords), q \in Range(wc_quirky) :
                     /\ \A i \in 1..n :
                           /\ calls[i].fn = WildcardOrder(k, q)[i].fn
                           /\ calls[i].args = WildcardOrder(k, q)[i].args
                     /\ IF calls[n].returned # {}
                        THEN wc_run.value \in calls[n].returned
                        ELSE n = 6 /\ wc_run.value = k \o Prefix(q, 3)

\* The blends and the affixes returned nothing, and a modified word was
\* returned.
C22_Witness ==
    /\ wc_pc = "done" /\ wc_keywords # <<>> /\ wc_quirky # <<>>
    /\ Len(wc_run.calls) >= 5
    /\ wc_run.calls[Len(wc_run.calls)].returned # {}

(***************************************************************************)
(* Properties of the strategies, under SpecStrategy.                       *)
(***************************************************************************)
StrategyReturned(func) == st_pc = "done" /\ st_func = func

ING == <<"i","n","g">>

\* C14: no element of blend_words(word1, word2) is equal to the lower-cased
\* word1 or the lower-cased word2, and every element has more than 3
\* characters, for every choice of the split points.
C14_BlendsAreNewAndLong ==
    StrategyReturned("blend_words") =>
        \A b \in st_out :
            b # Lower(st_word1) /\ b # Lower(st_word2) /\ Len(b) > 3

\* blend_words has returned a blend of a word of more than 3 characters with
\* itself (the blend by overlap is the word itself).
C14_Witness ==
    /\ StrategyReturned("blend_words")
    /\ Len(st_word1) > 3 /\ Lower(st_word1) = Lower(st_word2)
    /\ st_out # {}

\* C15: when either input of blend_words has at most one character,
\* blend_words returns an empty list.
C15_NoBlendOfOneLetter ==
    (StrategyReturned("blend_words") /\ (Len(st_word1) <= 1 \/ Len(st_word2) <= 1))
        => st_out = {}

\* blend_words has returned for a word of one letter and a word of more than
\* 3 characters.
C15_Witness ==
    /\ StrategyReturned("blend_words")
    /\ Len(st_word1) = 1 /\ Len(st_word2) > 3
    /\ st_out = {}

\* C16: clip_word returns an empty list for a word of at most 4 characters,
\* and for a longer word exactly one word: the first 3 or the first 4
\* characters of the lower-cased input, which differs from the input.
C16_ClipsToThreeOrFour ==
    StrategyReturned("clip_word") =>
        IF Len(st_word1) <= 4 THEN st_out = {}
        ELSE /\ \E k \in {3, 4} : st_out = {Prefix(Lower(st_word1), k)}
             /\ st_word1 \notin st_out

\* clip_word has returned for a word of 5 characters or more that holds an
\* upper-case letter.
C16_Witness ==
    /\ StrategyReturned("clip_word")
    /\ Len(st_word1) >= 5 /\ Lower(st_word1) # st_word1
    /\ st_out # {}

\* C17: for a word of 3 characters or more that contains a vowel,
\* reduplicate_word returns the word followed by its last two characters when
\* the last vowel lies within the final two characters, and by the substring
\* from the last vowel to the end otherwise ("cat" gives ["catat"]).
C17_ReduplicatesFromLastVowel ==
    LET word == Lower(st_word1)
        vs == {i \in 1..Len(word) : word[i] \in Range(VOWELS)}
        last_vowel == CHOOSE i \in vs : \A j \in vs : j <= i
        segment == IF last_vowel >= Len(word) - 1
                   THEN LastChars(word, 2)
                   ELSE SubSeq(word, last_vowel, Len(word))
    IN  (StrategyReturned("reduplicate_word") /\ Len(word) >= 3 /\ vs # {})
            => st_out = {word \o segment}

\* C18 as claimed: for a word of more than 3 characters that ends in "ing",
\* phonetic_respell returns exactly one candidate, the word with its trailing
\* "ing" replaced by "in'".
C18_RespellsIngOverThree ==
    (StrategyReturned("phonetic_respell") /\ Len(st_word1) > 3 /\ EndsWith(st_word1, ING))
        => st_out = {Prefix(st_word1, Len(st_word1) - 3) \o <<"i","n","'">>}

\* C18 as amended: for a word of more than 4 characters whose lower-cased
\* form ends in "ing", phonetic_respell returns exactly one candidate, the
\* lower-cased word with its trailing "ing" replaced by "in'"; for a word of
\* 4 characters that ends in "ing" it returns an empty list.
C18_RespellsIngOverFour ==
    (StrategyReturned("phonetic_respell") /\ EndsWith(Lower(st_word1), ING)) =>
        /\ Len(st_word1) > 4 =>
               st_out = {Prefix(Lower(st_word1), Len(st_word1) - 3) \o <<"i","n","'">>}
        /\ Len(st_word1) = 4 => st_out = {}

\* phonetic_respell has returned for a word of more than 4 characters that
\* ends in "ing".
C18_Witness ==
    /\ StrategyReturned("phonetic_respell")
    /\ Len(st_word1) > 4 /\ EndsWith(st_word1, ING)
    /\ st_out # {}

\* C19: modify_word_phonetically returns at most one word; a word returned
\* has the length of the input, differs from the lower-cased input in exactly
\* one position, and the character changed stays in its class; for a word of
\* fewer than 3 characters the list is empty.
C19_ModifiesOneCharacterInClass ==
    LET word == Lower(st_word1)
        SameClass(c, d) ==
            \/ c \in Range(VOWELS) /\ d \in Range(VOWELS)
            \/ c \in Range(CONSONANTS) /\ d \in Range(CONSONANTS)
    IN  StrategyReturned("modify_word_phonetically") =>
            /\ Cardinality(st_out) <= 1
            /\ \A m \in st_out :
                  /\ Len(m) = Len(word)
                  /\ Cardinality({i \in 1..Len(word) : m[i] # word[i]}) = 1
                  /\ \A i \in 1..Len(word) : m[i] # word[i] => SameClass(word[i], m[i])
            /\ Len(word) < 3 => st_out = {}

\* modify_word_phonetically has returned a word for an input that holds an
\* upper-case letter.
C19_Witness ==
    /\ StrategyReturned("modify_word_phonetically")
    /\ Lower(st_word1) # st_word1
    /\ st_out # {}

\* C23: reduplicate_word never appends the whole word: no candidate is the
\* lowercased word written twice, and every candidate is the word followed by
\* one of its proper suffixes.
C23_NeverRepeatsWholeWord ==
    StrategyReturned("reduplicate_word")
        => LET word == Lower(st_word1)
           IN  \A x \in st_out :
                  /\ x # word \o word
                  /\ \E n \in 1..(Len(word) - 1) : x = word \o LastChars(word, n)

\* C24 (as stated): every candidate of reduplicate_word has at most 20
\* characters, and a word of more than 18 characters gets an empty list.
C24_ReduplicatedWithinTwenty ==
    StrategyReturned("reduplicate_word")
        => /\ \A x \in st_out : Len(x) <= 20
           /\ Len(st_word1) > 18 => st_out = {}

\* C24 (amended): every candidate of reduplicate_word has at most 24
\* characters, and a word of more than 22 characters, whose reduplicated form
\* has 25 characters or more, gets an empty list.
C24_ReduplicatedWithinTwentyFour ==
    StrategyReturned("reduplicate_word")
        => /\ \A x \in st_out : Len(x) <= 24
           /\ Len(st_word1) > 22 => st_out = {}

\* reduplicate_word returned a candidate of more than 20 characters for a word
\* of more than 18.
C24_Witness ==
    /\ StrategyReturned("reduplicate_word")
    /\ Len(st_word1) > 18
    /\ \E x \in st_out : Len(x) > 20

\* The first position at which the pattern lies in the word, 0 if there is none.
FirstOccurrence(word, pattern) ==
    LET at == {i \in 1..(Len(word) - Len(pattern) + 1) :
                  SubSeq(word, i, i + Len(pattern) - 1) = pattern}
    IN  IF at = {} THEN 0 ELSE CHOOSE i \in at : \A j \in at : i <= j

\* The word with the first occurrence of the pattern replaced.
ReplaceFirst(word, pattern, replacement) ==
    LET i == FirstOccurrence(word, pattern)
    IN  SubSeq(word, 1, i - 1) \o replacement
            \o SubSeq(word, i + Len(pattern), Len(word))

C26_NoRunOfThreeCreated ==
    StrategyReturned("modify_word_phonetically")
        => LET word == Lower(st_word1)
           IN  \A x \in st_out :
                  \A i \in 1..(Len(x) - 2) :
                     (/\ x[i] \in Range(VOWELS) \cup Range(CONSONANTS)
                      /\ x[i] = x[i + 1] /\ x[i + 1] = x[i + 2])
                        => (word[i] = word[i + 1] /\ word[i + 1] = word[i + 2])

\* The prefixes and the suffixes add_affixes knows.
KnownPrefixes == Range(COMMON_PREFIXES \o PlayfulPrefixes)

KnownSuffixes == Range(COMMON_SUFFIXES \o StrippedPlayfulSuffixes)

\* The candidates of st_out that are a known prefix followed by the word.
PrefixCandidates ==
    {x \in st_out : \E p \in KnownPrefixes : x = p \o Lower(st_word1)}

\* C27: add_affixes returns at most two candidates, at most one with a prefix
\* added and at most one with a suffix added; a prefix is added only to a word
\* of more than 2 characters that starts with no known prefix, a suffix only to
\* a word of more than 3 characters that ends with no known suffix; a word of 2
\* characters or fewer gets an empty list.
C27_AtMostOnePrefixOneSuffix ==
    StrategyReturned("add_affixes")
        => LET word == Lower(st_word1)
               n == Len(word)
               suffixed == st_out \ PrefixCandidates
           IN  /\ Cardinality(st_out) <= 2
               /\ Cardinality(PrefixCandidates) <= 1
               /\ Cardinality(suffixed) <= 1
               /\ \A x \in suffixed :
                     \E s \in KnownSuffixes :
                        x \in {word \o s, Prefix(word, n - 1) \o s,
                               word \o LastChars(word, 1) \o s}
               /\ PrefixCandidates # {}
                    => (n > 2 /\ \A p \in KnownPrefixes : ~StartsWith(word, p))
               /\ suffixed # {}
                    => (n > 3 /\ \A s \in KnownSuffixes : ~EndsWith(word, s))
               /\ n <= 2 => st_out = {}

\* add_affixes returned a candidate with a prefix and one with a suffix.
C27_Witness ==
    /\ StrategyReturned("add_affixes")
    /\ Cardinality(PrefixCandidates) = 1
    /\ Cardinality(st_out \ PrefixCandidates) = 1

\* C28: add_affixes doubles the final consonant only when the word ends in one
\* consonant that follows one vowel, not two, the suffix is one of ing, ed, er,
\* est, and the consonant is neither w nor x; and it drops a final "e" before
\* an eliding suffix.
C28_DoublesAfterSingleVowelOnly ==
    StrategyReturned("add_affixes")
        => LET word == Lower(st_word1)
               n == Len(word)
           IN  \A x \in st_out :
                  /\ \A s \in DoublingSuffixes :
                        (n >= 3 /\ x = word \o LastChars(word, 1) \o s)
                          => /\ word[n] \in Range(CONSONANTS) \ {"w", "x"}
                             /\ word[n - 1] \in Range(VOWELS)
                             /\ word[n - 2] \notin Range(VOWELS)
                  /\ \A s \in ElidingSuffixes :
                        EndsWith(word, <<"e">>) => x # word \o s

(***************************************************************************)
(* Properties of two runs, under SpecTwoRuns.                              *)
(***************************************************************************)
\* C29: two runs of generate_new_words that hold the same words and make the
\* same random draws return the same regular_words in the same order and the
\* same wildcard_word.
C29_SameDrawsSameResult ==
    two_pc = "done" => two_out[1] = two_out[2]

=============================================================================
